---------------------------- MODULE Spec2Model ----------------------------
(***************************************************************************)
(* State-machine model of itensor/eigensolver.h:                           *)
(*   findEig, complexDavidson (and the davidson wrappers), nonOrthDavidson *)
(*   and powerMethod.                                                      *)
(*                                                                         *)
(* Tensors are not modelled numerically.  What the drivers do with them    *)
(* is: which slot of V / AV is touched, which column of the coefficient    *)
(* matrix a vector is synthesized from, which entry of the spectrum an     *)
(* eigenvalue is copied from.  The floating point outcomes that steer the  *)
(* control flow (residual norm class, Gram-Schmidt breakdown, the          *)
(* spectrum returned by the dense eigensolver) are inputs drawn from small *)
(* sets.  Complex numbers are pairs <<re, im>> of small integers.          *)
(***************************************************************************)
EXTENDS Integers, Sequences, FiniteSets, TLC

(* ---------------------------- bounds ---------------------------------- *)
\* largest number of initial guesses (nget) explored
MaxNget == 3
\* largest operator dimension A.size() explored
MaxN == 3
\* largest value of the MaxIter option explored
MaxMaxIter == 2
\* largest value of the MinIter option explored
MaxMinIter == 1
\* longest spectrum handed to findEig on its own
MaxSpecLen == 3
\* largest value of the MaxIter option of nonOrthDavidson explored
MaxNodIter == 3
\* largest number of vectors handed to powerMethod
MaxVecs == 3
\* powerMethod runs are followed while the components of the integer
\* representative of v stay within this magnitude
MaxComponent == 20000

(* ---------------------- program constants ----------------------------- *)
\* const int Npass = 1;
Npass == 1

VARIABLES
    \* ---- complexDavidson ----
    pc,            \* position: "start","head","gs","post","returned","aborted"
    nget,          \* phi.size()
    maxsize,       \* A.size()
    maxiter_,      \* option MaxIter
    miniter_,      \* option MinIter
    hermitian,     \* option Hermitian
    phi,           \* phi[j], j in 0..nget-1 : what each vector currently holds
    eigs,          \* eigs[j], j in 0..nget-1, NaN until written
    initEn,        \* z.real() of z = <V[0]|AV[0]>
    t,             \* target index
    ii,            \* outer loop counter
    iter,          \* int iter
    D,             \* spectrum (D, DI) of the last dense diagonalization
    w,             \* column selected by the last projection (-1: none)
    msize,         \* current size of MrefR / MrefI
    complex_diag,  \* sticky flag
    pass,          \* Gram-Schmidt loop variable
    count,         \* Gram-Schmidt attempt counter
    vTop,          \* largest index k with V[k] read or written so far
    avTop,         \* largest index k with AV[k] read or written so far
    nprod,         \* number of A.product calls so far
    ndiag,         \* number of dense diagonalizations so far
    lambda,        \* value last written through Complex& lambda = eigs.at(t)
    last_lambda,   \* Complex last_lambda
    resid,         \* how the last residual q was formed
    inputOK,       \* history: the call's guess list was well formed
    broke,         \* history: the break condition of line 469 held at the
                   \* last convergence test
    \* ---- findEig ----
    fePc,          \* "off", "call", "done"
    feNum,         \* argument num
    feD,           \* arguments DR, DI as a sequence of <<re, im>>
    feRes,         \* return value
    \* ---- nonOrthDavidson ----
    nPc,           \* "off", "loop", "grow", "exit", "returned", "aborted"
    nMaxiter,      \* option MaxIter
    nSize,         \* A.size()
    nIi,           \* loop variable ii
    nIter,         \* iter
    nQ,            \* basis indices k whose term is part of the residual q
    nU,            \* U.Nrows() (0: GeneralizedEV never ran)
    nVTop,         \* highest index of V assigned (0: none)
    nMsize,        \* current size of Mref and Nref
    nAVok,         \* AV[k] = A*V[k] for every k in use
    nNok,          \* Nref(j,k) = <V[j]|B|V[k]> for every entry in use
    nMok,          \* Mref(j,k) = <V[j]|A|V[k]> for every entry in use
    nPhi,          \* what phi holds: "guess", "ritz", "garbage"
    \* ---- powerMethod ----
    pPc,           \* "off", "begin", "iter", "next", "cut", "returned"
    pVecs,         \* vecs: integer vectors, each standing for its direction
    pEigs,         \* eigs: squares of the values, as reduced fractions
    pT,            \* t
    pIi,           \* ii
    pLast,         \* last_lambda (squared, reduced fraction)
    pProd,         \* history: v right after A.product, line 102
    pRaw           \* history: v after the subtraction loop, line 106

dvars == <<pc, nget, maxsize, maxiter_, miniter_, hermitian, phi, eigs, initEn,
           t, ii, iter, D, w, msize, complex_diag, pass, count, vTop, avTop,
           nprod, ndiag, lambda, last_lambda, resid, inputOK, broke>>

\* the arguments and options of a complexDavidson call
inputs == <<inputOK, nget, maxsize, maxiter_, miniter_, hermitian>>

fvars == <<fePc, feNum, feD, feRes>>

nvars == <<nPc, nMaxiter, nSize, nIi, nIter, nQ, nU, nVTop, nMsize,
           nAVok, nNok, nMok, nPhi>>

pvars == <<pPc, pVecs, pEigs, pT, pIi, pLast, pProd, pRaw>>

vars == <<dvars, fvars, nvars, pvars>>

\* the state of the routines other than complexDavidson
notDavidson == <<fvars, nvars, pvars>>

(* ------------------------- small helpers ------------------------------ *)
Min(a, b) == IF a < b THEN a ELSE b
Max(a, b) == IF a < b THEN b ELSE a
Sqr(x) == x * x

\* eigenvalues the dense general eigensolvers may return: <<re, im>>, with
\* an imaginary part of either sign
SpecVals == {<<1, -2>>, <<3, 2>>}
\* values of z = BraKet(V[0],AV[0])
SeedVals == {<<1, 2>>}
\* eigenvalues the symmetric / Hermitian eigensolvers may return (real)
HermVals == {1, 3}

\* eigs[j] records where its value came from: "nan" (Complex(NAN,NAN)),
\* "seed" (Complex(initEn,0.)), "ritz" or "harvest" (entry idx of the
\* spectrum of dense diagonalization number diag), "garbage"
\* (a "ritz" value is entry w of the spectrum at the time of its Project step)
NaNc == [kind |-> "nan", idx |-> -1, diag |-> 0]
SeedEig == [kind |-> "seed", idx |-> -1, diag |-> 0]
RitzEig == [kind |-> "ritz", idx |-> -1, diag |-> 0]
HarvestedEig(idx, dg) == [kind |-> "harvest", idx |-> idx, diag |-> dg]
GarbageEig == [kind |-> "garbage", idx |-> -1, diag |-> 0]

\* an initial guess: its norm and its dimension
Guess(nrm, dim) == [kind |-> "guess", col |-> -1, rows |-> 0, nrm |-> nrm, dim |-> dim]

\* sum_{k <= ii} U[k, w] * V[k], as built by a Project step (the column is
\* the one held in w when the step ran)
Ritz(dim) == [kind |-> "ritz", col |-> -1, rows |-> 0, nrm |-> 1, dim |-> dim]

\* sum_{k < rows} U[k, col] * V[k], as built by post-processing
Harvested(col, rows, dim) == [kind |-> "harvest", col |-> col, rows |-> rows, nrm |-> 1, dim |-> dim]

\* built from coefficients read outside the stored matrix
GarbageVec(dim) == [kind |-> "garbage", col |-> -1, rows |-> 0, nrm |-> 1, dim |-> dim]

(* ------------------------------ findEig ------------------------------- *)
\* first loop of findEig: A2(ii) > maxj, strict, ii ascending
RECURSIVE FirstScan(_, _, _, _)
FirstScan(A2, i, maxj, wv) ==
    IF i > Len(A2) THEN <<maxj, wv>>
    ELSE IF A2[i] > maxj THEN FirstScan(A2, i + 1, A2[i], i)
         ELSE FirstScan(A2, i + 1, maxj, wv)

\* mutant: ties are won by the latest index instead of the earliest
RECURSIVE NextScanLatest(_, _, _, _, _)
NextScanLatest(A2, i, nmax, wv, maxj) ==
    IF i > Len(A2) THEN <<nmax, wv>>
    ELSE IF A2[i] >= nmax /\ A2[i] < maxj THEN NextScanLatest(A2, i + 1, A2[i], i, maxj)
         ELSE NextScanLatest(A2, i + 1, nmax, wv, maxj)

\* inner loop of findEig: A2(ii) > nmax && A2(ii) < maxj
RECURSIVE NextScan(_, _, _, _, _)
NextScan(A2, i, nmax, wv, maxj) ==
    IF i > Len(A2) THEN <<nmax, wv>>
    ELSE IF A2[i] > nmax /\ A2[i] < maxj THEN NextScan(A2, i + 1, A2[i], i, maxj)
         ELSE NextScan(A2, i + 1, nmax, wv, maxj)

\* outer loop of findEig: for(j = 1; j <= num; ++j) { ...; maxj = nmax; }
RECURSIVE Rounds(_, _, _, _, _)
Rounds(A2, j, num, maxj, wv) ==
    IF j > num THEN wv
    ELSE LET r == NextScan(A2, 1, -1, wv, maxj)
         IN  Rounds(A2, j + 1, num, r[1], r[2])

\* squared moduli, A2(ii) = sqr(DR(ii)) + sqr(DI(ii))
Moduli2(DD) == [i \in 1..Len(DD) |-> Sqr(DD[i][1]) + Sqr(DD[i][2])]

\* findEig(num, DR, DI): zero-indexed argument and result
findEig(num, DD) ==
    LET A2 == Moduli2(DD)
        f  == FirstScan(A2, 1, -1, -1)
    IN  Rounds(A2, 1, num, f[1], f[2]) - 1

(* --------------------------- complexDavidson -------------------------- *)
\* mutant: the iteration cap ignores the operator dimension
ActualMaxIterNoCap(mi, n) == mi

\* const int actual_maxiter = min(maxiter_, maxsize-1);
ActualMaxIter(mi, n) == Min(mi, n - 1)

amax == ActualMaxIter(maxiter_, maxsize)

Targets == 0..(nget - 1)

\* spectra a dense eigensolver may return for an L x L projected matrix:
\* ascending real ones on the Hermitian path, arbitrary ones otherwise
Spectra(L, herm) ==
    IF herm
    THEN {[i \in 1..L |-> <<s[i], 0>>] :
             s \in {x \in [1..L -> HermVals] : \A i, j \in 1..L : i < j => x[i] <= x[j]}}
    ELSE [1..L -> SpecVals]

\* residual norm classes: qnorm < 1E-20; < max(Approx0, errgoal*1E-3);
\* < errgoal; anything larger
QClasses == {"tiny", "small", "mid", "big"}

\* const bool converged = (qnorm < errgoal_ && abs(lambda-last_lambda) < errgoal_)
\*                        || qnorm < max(Approx0,errgoal_ * 1E-3);
Converged(qc, lam, last) ==
    (qc \in {"tiny", "small", "mid"} /\ lam = last) \/ qc \in {"tiny", "small"}

\* mutant: the break condition without its test ii == actual_maxiter
BreakFiresNoCap(qc, conv, i) ==
    qc = "tiny" \/ (conv /\ i >= miniter_)

\* if((qnorm < 1E-20) || (converged && ii >= miniter_) || (ii == actual_maxiter))
BreakFires(qc, conv, i) ==
    qc = "tiny" \/ (conv /\ i >= miniter_) \/ i = amax

\* guess lists: every guess well formed, or one guess (at any position) with
\* zero norm or with a dimension other than A.size()
GuessLists(ng, n) ==
    {[j \in 0..(ng - 1) |-> Guess(2, n)]}
    \cup {[j \in 0..(ng - 1) |-> IF j = b THEN g ELSE Guess(2, n)] :
             b \in 0..(ng - 1), g \in {Guess(0, n), Guess(2, n + 1)}}

DavInit ==
    /\ pc = "start"
    /\ nget \in 0..MaxNget
    /\ maxsize \in 1..MaxN
    /\ maxiter_ \in 0..MaxMaxIter
    /\ miniter_ \in 0..MaxMinIter
    /\ hermitian \in BOOLEAN
    /\ phi \in GuessLists(nget, maxsize)
    /\ eigs = [j \in 0..(nget - 1) |-> NaNc]
    /\ initEn = 0
    /\ t = 0 /\ ii = 0 /\ iter = 0
    /\ D = <<>> /\ w = -1 /\ msize = 0
    /\ complex_diag = FALSE
    /\ pass = 1 /\ count = 0
    /\ vTop = -1 /\ avTop = -1
    /\ nprod = 0 /\ ndiag = 0
    /\ lambda = <<0, 0>>
    /\ last_lambda = <<1000, 0>>
    /\ resid = "none"
    /\ inputOK = (nget >= 1 /\ \A j \in 0..(nget - 1) : phi[j].nrm # 0 /\ phi[j].dim = maxsize)
    /\ broke = FALSE

\* phi[j] *= 1.0/nrm
Normalized(p) == [p EXCEPT !.nrm = 1]

\* lines 273-337: input checks, normalization, V[0], AV[0], initEn
Setup ==
    /\ pc = "start"
    /\ UNCHANGED <<notDavidson, inputs, eigs, t, ii, iter, broke,
                   D, w, complex_diag, pass, count, ndiag, lambda, last_lambda, resid>>
    /\ LET zeros == {j \in Targets : phi[j].nrm = 0}
           firstZero == CHOOSE j \in zeros : \A k \in zeros : j <= k
       IN
       IF nget = 0
       THEN \* Error("No initial vectors passed to davidson.")
            /\ pc' = "aborted"
            /\ UNCHANGED <<phi, initEn, msize, vTop, avTop, nprod>>
       ELSE IF zeros # {}
       THEN \* Error("norm of 0 in davidson"), vectors before it are normalized
            /\ pc' = "aborted"
            /\ phi' = [j \in Targets |-> IF j < firstZero THEN Normalized(phi[j]) ELSE phi[j]]
            /\ UNCHANGED <<initEn, msize, vTop, avTop, nprod>>
       ELSE IF phi[0].dim # maxsize
       THEN \* Error("davidson: size of initial vector should match linear matrix size")
            /\ pc' = "aborted"
            /\ phi' = [j \in Targets |-> Normalized(phi[j])]
            /\ UNCHANGED <<initEn, msize, vTop, avTop, nprod>>
       ELSE /\ pc' = "head"
            /\ phi' = [j \in Targets |-> Normalized(phi[j])]
            /\ \E z \in SeedVals : initEn' = z[1]
            /\ msize' = 1
            /\ vTop' = 0 /\ avTop' = 0
            /\ nprod' = 1

\* lines 462-498: convergence test, last_lambda, targeting or exit
\* the outcomes of the break condition over the residual norms q may have
BreakOutcomes(lam) ==
    {BreakFires(qc, Converged(qc, lam, last_lambda), ii) : qc \in QClasses}

ConvergeAndTarget(fires, lam) ==
        /\ pass' = 1 /\ count' = 0
        /\ lambda' = lam
        /\ broke' = fires
        /\ IF fires
           THEN IF t < nget - 1 /\ ii < amax
                THEN t' = t + 1 /\ last_lambda' = <<1000, 0>> /\ pc' = "gs"
                ELSE t' = t /\ last_lambda' = lam /\ pc' = "post"
           ELSE t' = t /\ last_lambda' = lam /\ pc' = "gs"

\* lines 345-360 and 462-498: outer iteration ii = 0
Seed ==
    /\ pc = "head" /\ ii = 0
    /\ eigs' = [eigs EXCEPT ![t] = SeedEig]
    /\ msize' = 1
    /\ vTop' = Max(vTop, ii + 1)
    /\ resid' = "seed"
    /\ \E fires \in BreakOutcomes(<<initEn, 0>>) : ConvergeAndTarget(fires, <<initEn, 0>>)
    /\ UNCHANGED <<notDavidson, inputs, phi, initEn, ii, iter,
                   D, w, complex_diag, avTop, nprod, ndiag>>

\* if(lambda.imag() <= Approx0) q += (-lambda.real())*phi_t; else q += (-lambda)*phi_t;
ResidualKind(lam) == IF lam[2] <= 0 THEN "real" ELSE "complex"

\* mutant: the Hermitian path always takes the first column
SelectWFirst(tt, DD, herm) == IF herm THEN 0 ELSE findEig(tt, DD)

\* int w = t;  or  w = findEig(t,D,DI);
SelectW(tt, DD, herm) == IF herm THEN tt ELSE findEig(tt, DD)

\* lines 345-348, 361-458 and 462-498: outer iteration ii > 0
Project ==
    /\ pc = "head" /\ ii > 0
    /\ \E DD \in Spectra(msize, hermitian) :
         LET ww  == SelectW(t, DD, hermitian)
             lam == DD[1 + ww]
         IN  /\ D' = DD
             /\ w' = ww
             /\ phi' = [phi EXCEPT ![t] = Ritz(maxsize)]
             /\ eigs' = [eigs EXCEPT ![t] = RitzEig]
             /\ resid' = ResidualKind(lam)
             /\ \E fires \in BreakOutcomes(lam) : ConvergeAndTarget(fires, lam)
    /\ ndiag' = ndiag + 1
    /\ vTop' = Max(vTop, ii + 1)
    /\ avTop' = Max(avTop, ii)
    /\ UNCHANGED <<notDavidson, inputs, initEn, ii, iter,
                   msize, complex_diag, nprod>>

\* lines 536-587: one trip through the Gram-Schmidt loop body
GSPass ==
    /\ pc = "gs" /\ pass <= Npass
    /\ count' = count + 1
    /\ \E breakdown \in BOOLEAN :
         IF breakdown
         THEN \* qn < 1E-10: q = V.at(ni-1); q.randomize();
              IF ii + 1 >= maxsize
              THEN pc' = "post" /\ pass' = pass
              ELSE IF count + 1 > Npass * 3
              THEN pc' = "post" /\ pass' = pass
              ELSE pc' = "gs" /\ pass' = (pass - 1) + 1
         ELSE pc' = "gs" /\ pass' = pass + 1
    /\ vTop' = Max(vTop, ii + 1)
    /\ UNCHANGED <<notDavidson, inputs, phi, eigs, initEn, t, ii, broke,
                   iter, D, w, msize, complex_diag, avTop, nprod, ndiag, lambda, last_lambda, resid>>

\* lines 602-647: A.product(V[ni],AV[ni]), new row and column of M, ++iter, ++ii
Expand ==
    /\ pc = "gs" /\ pass > Npass
    /\ nprod' = nprod + 1
    /\ avTop' = Max(avTop, ii + 1)
    /\ vTop' = Max(vTop, ii + 1)
    /\ msize' = ii + 2
    /\ \E newColComplex \in BOOLEAN : complex_diag' = (complex_diag \/ newColComplex)
    /\ iter' = iter + 1
    /\ ii' = ii + 1
    /\ pc' = IF ii + 1 <= amax THEN "head" ELSE "post"
    /\ UNCHANGED <<notDavidson, inputs, phi, eigs, initEn, t, broke,
                   D, w, pass, count, ndiag, lambda, last_lambda, resid>>

\* column of UR / UI that post-processing reads for phi[j]: UR(1+k,1+t)
HarvestCol(j, tt) == tt

\* entry of D / DI that post-processing reads for eigs[j]: D(1+j)
HarvestEig(j, tt) == j

\* lines 649-707: for(size_t j = t+1; j < nget; ++j) { ... }  return eigs;
\* D(1+j) or UR(.,1+t) outside the stored spectrum is an out-of-bounds read:
\* a bounds-checked build stops with an error, another build reads garbage.
Harvest ==
    /\ pc = "post"
    /\ LET H      == (t + 1)..(nget - 1)
           inD(x) == 1 + x \in 1..Len(D)
           bad    == {j \in H : ~inD(HarvestEig(j, t)) \/ ~inD(HarvestCol(j, t))}
           first  == CHOOSE j \in bad : \A k \in bad : j <= k
       IN
       IF bad = {}
       THEN /\ pc' = "returned"
            /\ eigs' = [j \in Targets |->
                          IF j \in H THEN HarvestedEig(HarvestEig(j, t), ndiag)
                          ELSE eigs[j]]
            /\ phi' = [j \in Targets |->
                          IF j \in H THEN Harvested(HarvestCol(j, t), Len(D), maxsize)
                          ELSE phi[j]]
       ELSE \E outcome \in {"error", "garbage"} :
            IF outcome = "error"
            THEN /\ pc' = "aborted"
                 /\ eigs' = [j \in Targets |->
                               IF j \in H /\ j < first
                               THEN HarvestedEig(HarvestEig(j, t), ndiag)
                               ELSE eigs[j]]
                 /\ phi' = [j \in Targets |->
                               IF j \in H /\ j < first
                               THEN Harvested(HarvestCol(j, t), Len(D), maxsize)
                               ELSE phi[j]]
            ELSE /\ pc' = "returned"
                 /\ eigs' = [j \in Targets |->
                               IF j \notin H THEN eigs[j]
                               ELSE IF inD(HarvestEig(j, t))
                               THEN HarvestedEig(HarvestEig(j, t), ndiag)
                               ELSE GarbageEig]
                 /\ phi' = [j \in Targets |->
                               IF j \notin H THEN phi[j]
                               ELSE IF inD(HarvestCol(j, t))
                               THEN Harvested(HarvestCol(j, t), Len(D), maxsize)
                               ELSE GarbageVec(maxsize)]
    /\ vTop' = IF t + 1 <= nget - 1 THEN Max(vTop, Max(0, Len(D) - 1)) ELSE vTop
    /\ UNCHANGED <<notDavidson, inputs, initEn, t, ii, iter, broke,
                   D, w, msize, complex_diag, pass, count, avTop, nprod, ndiag,
                   lambda, last_lambda, resid>>

\* complexDavidson is not running
DavOff ==
    /\ pc = "off" /\ nget = 0 /\ maxsize = 1 /\ maxiter_ = 0 /\ miniter_ = 0
    /\ hermitian = TRUE /\ phi = <<>> /\ eigs = <<>> /\ initEn = 0
    /\ t = 0 /\ ii = 0 /\ iter = 0 /\ D = <<>> /\ w = -1 /\ msize = 0
    /\ complex_diag = FALSE /\ pass = 1 /\ count = 0 /\ vTop = -1 /\ avTop = -1
    /\ nprod = 0 /\ ndiag = 0 /\ lambda = <<0, 0>> /\ last_lambda = <<1000, 0>>
    /\ resid = "none" /\ inputOK = FALSE /\ broke = FALSE

(* ------------------------- findEig on its own ------------------------- *)
\* eigenvalues of the spectra handed to findEig: equal moduli, a zero
FeVals == {<<1, 0>>, <<0, 1>>, <<2, 0>>, <<0, -2>>, <<0, 0>>}

FindEigOff == fePc = "off" /\ feNum = 0 /\ feD = <<>> /\ feRes = -1

FindEigInit ==
    /\ fePc = "call"
    /\ feD \in UNION {[1..L -> FeVals] : L \in 1..MaxSpecLen}
    /\ feNum \in 0..(Len(feD) - 1)
    /\ feRes = -1

\* one call of findEig(num, DR, DI)
FindEigCall ==
    /\ fePc = "call"
    /\ feRes' = findEig(feNum, feD)
    /\ fePc' = "done"
    /\ UNCHANGED <<dvars, nvars, pvars, feNum, feD>>

(* --------------------------- nonOrthDavidson --------------------------- *)
NodOff ==
    /\ nPc = "off" /\ nMaxiter = 0 /\ nSize = 1 /\ nIi = 1 /\ nIter = 0
    /\ nQ = {} /\ nU = 0 /\ nVTop = 0 /\ nMsize = 1
    /\ nAVok = TRUE /\ nNok = TRUE /\ nMok = TRUE /\ nPhi = "guess"

\* actual_maxiter of nonOrthDavidson
NodActualMaxIter(mi, n) == Min(mi, n)

nActual == NodActualMaxIter(nMaxiter, nSize)

\* the state when the for loop is entered: phi B-normalized, storage
\* allocated, Mref and Nref 1 x 1, D and U empty, iter = 0, ii = 1
NodInit ==
    /\ nPc = "loop"
    /\ nMaxiter \in 0..MaxNodIter
    /\ nSize \in 1..MaxN
    /\ nIi = 1 /\ nIter = 0 /\ nQ = {} /\ nU = 0 /\ nVTop = 0 /\ nMsize = 1
    /\ nAVok = TRUE /\ nNok = TRUE /\ nMok = TRUE /\ nPhi = "guess"

\* the basis indices whose term U(k,1)*(AV[k]-lambda*BV[k]) is part of q
\* once the loop over k has run: each pass assigns q
ResidualTerms(i) == {i}

\* first part of a pass of the for loop: the residual, the convergence test
NodResidual ==
    /\ nPc = "loop" /\ nIi <= nActual
    /\ nIter' = nIter + 1
    /\ IF nIi = 1
       THEN /\ nVTop' = 1
            /\ nQ' = {1}
            /\ nU' = nU
       ELSE /\ nU' = nMsize
            /\ nQ' = ResidualTerms(nIi)
            /\ nVTop' = nVTop
    /\ \E converged \in BOOLEAN :
           nPc' = IF converged THEN "exit" ELSE "grow"
    /\ UNCHANGED <<dvars, fvars, pvars, nMaxiter, nSize, nIi, nMsize,
                   nAVok, nNok, nMok, nPhi>>

Signs == {1, -1}

\* the factor d and BV[ii+1] carry once the loop over k = 1..n has flipped
\* them at every k whose overlap it found negative; s[k] is the sign of
\* <V[k]|B|d> for the d the loop started from
RECURSIVE FlipAfter(_, _, _)
FlipAfter(s, k, f) ==
    IF k > Len(s) THEN f
    ELSE FlipAfter(s, k + 1, IF s[k] * f < 0 THEN -f ELSE f)

\* second part of a pass: the new basis vector, the expansion of AV, BV, M, N
NodGrow ==
    /\ nPc = "grow"
    /\ nVTop' = nIi + 1
    /\ IF nIi < nActual
       THEN \E s \in [1..nIi -> Signs] :
                LET f == FlipAfter(s, 1, 1)
                IN  /\ nMsize' = nIi + 1
                    /\ nAVok' = (nAVok /\ f = 1)
                    /\ nMok' = (nMok /\ f = 1)
                    /\ nNok' = (nNok /\ \A k \in 1..nIi : s[k] * f > 0)
       ELSE UNCHANGED <<nMsize, nAVok, nMok, nNok>>
    /\ nIi' = nIi + 1
    /\ nPc' = "loop"
    /\ UNCHANGED <<dvars, fvars, pvars, nMaxiter, nSize, nIter, nQ, nU, nPhi>>

\* after the loop: phi = sum over k = 1..iter of U(k,1)*V[k]
NodExit ==
    /\ \/ nPc = "exit"
       \/ nPc = "loop" /\ nIi > nActual
    /\ IF nU = nIter /\ nIter >= 1
       THEN nPc' = "returned" /\ nPhi' = "ritz"
       ELSE \E outcome \in {"error", "garbage"} :
                IF outcome = "error"
                THEN nPc' = "aborted" /\ nPhi' = nPhi
                ELSE nPc' = "returned" /\ nPhi' = "garbage"
    /\ UNCHANGED <<dvars, fvars, pvars, nMaxiter, nSize, nIi, nIter, nQ, nU,
                   nVTop, nMsize, nAVok, nNok, nMok>>

(* ----------------------------- powerMethod ----------------------------- *)
\* Vectors are integer triples in the eigenbasis of a diagonal operator.  A
\* triple stands for the unit vector of its direction; a vector along one
\* axis is kept as the signed unit vector itself.  Values (lambda, eigs)
\* are kept as their squares, a reduced fraction <<numerator, denominator>>.

\* the operator of the power-method scenario: diag(10, 5, 3)
Adiag == <<10, 5, 3>>

\* maxiter of powerMethod
maxiter == 1000

\* the initial value of every entry of eigs and of last_lambda (squared)
Thousand == <<1000000, 1>>

ZeroVec == <<0, 0, 0>>

\* start vectors: two along an axis, two with every component non-zero
PowVecs == {<<2, 0, 0>>, <<0, 1, 0>>, <<1, 1, 1>>, <<1, -1, 2>>}

Abs(x) == IF x < 0 THEN -x ELSE x

Dot(a, b) == a[1] * b[1] + a[2] * b[2] + a[3] * b[3]

Scaled(c, a) == <<c * a[1], c * a[2], c * a[3]>>

Plus(a, b) == <<a[1] + b[1], a[2] + b[2], a[3] + b[3]>>

\* A.product(v, vp)
Product(v) == <<Adiag[1] * v[1], Adiag[2] * v[2], Adiag[3] * v[3]>>

IsAxis(v) == Cardinality({i \in 1..3 : v[i] # 0}) = 1

Sign(x) == IF x < 0 THEN -1 ELSE IF x > 0 THEN 1 ELSE 0

\* v /= v.norm(): exact for a vector along an axis, implicit otherwise
Unit(v) == IF IsAxis(v) THEN <<Sign(v[1]), Sign(v[2]), Sign(v[3])>> ELSE v

RECURSIVE Gcd(_, _)
Gcd(a, b) == IF b = 0 THEN a ELSE Gcd(b, a % b)

Reduced(n, d) == LET g == Gcd(n, d) IN <<n \div g, d \div g>>

\* the square of the norm of the vector that "raw" stands for, when it was
\* computed from the unit vector that "from" stands for
Norm2(raw, from) == Reduced(Dot(raw, raw), Dot(from, from))

\* the value whose square is the fraction l (an integer for every value
\* that the subtraction loop reads)
Root(l) == CHOOSE r \in 0..MaxComponent : r * r = l[1] /\ l[2] = 1

\* for(j = 0; j < t; ++j) v += (-eigs.at(j)*vecs.at(j)*BraKet(vecs.at(j),v))
RECURSIVE Deflated(_, _, _, _, _)
Deflated(v, j, tt, vecs, es) ==
    IF j >= tt THEN v
    ELSE Deflated(Plus(v, Scaled(-Root(es[j + 1]) * Dot(vecs[j + 1], v),
                                 vecs[j + 1])),
                  j + 1, tt, vecs, es)

\* fabs(lambda - last_lambda) < errgoal_: the values of the runs followed
\* here differ by far more than any error goal unless they are equal
Close(l, last) == l = last

Within(v) == \A i \in 1..3 : Abs(v[i]) <= MaxComponent

PowOff ==
    /\ pPc = "off" /\ pVecs = <<>> /\ pEigs = <<>> /\ pT = 0 /\ pIi = 1
    /\ pLast = Thousand /\ pProd = ZeroVec /\ pRaw = ZeroVec

PowInit ==
    /\ pPc = "begin"
    /\ pVecs \in UNION {[1..n -> PowVecs] : n \in 1..MaxVecs}
    /\ pEigs = [j \in 1..Len(pVecs) |-> Thousand]
    /\ pT = 0 /\ pIi = 1
    /\ pLast = Thousand /\ pProd = ZeroVec /\ pRaw = ZeroVec

\* the head of the body of the loop over t: last_lambda, v /= v.norm()
PowBegin ==
    /\ pPc = "begin"
    /\ pVecs' = [pVecs EXCEPT ![pT + 1] = Unit(@)]
    /\ pLast' = Thousand
    /\ pIi' = 1
    /\ pProd' = ZeroVec /\ pRaw' = ZeroVec
    /\ pPc' = "iter"
    /\ UNCHANGED <<dvars, fvars, nvars, pEigs, pT>>

\* one pass of the loop over ii
PowStep ==
    /\ pPc = "iter"
    /\ LET v == pVecs[pT + 1]
           vp == Product(v)
           raw == Deflated(vp, 0, pT, pVecs, pEigs)
       IN  /\ pProd' = vp
           /\ pRaw' = raw
           /\ IF Within(raw)
              THEN LET lam == Norm2(raw, v)
                   IN  /\ pLast' = pEigs[pT + 1]
                       /\ pEigs' = [pEigs EXCEPT ![pT + 1] = lam]
                       /\ pVecs' = [pVecs EXCEPT ![pT + 1] = Unit(raw)]
                       /\ IF Close(lam, pEigs[pT + 1]) \/ pIi = maxiter
                          THEN pPc' = "next" /\ pIi' = pIi
                          ELSE pPc' = "iter" /\ pIi' = pIi + 1
              ELSE /\ pPc' = "cut"
                   /\ UNCHANGED <<pLast, pEigs, pVecs, pIi>>
    /\ UNCHANGED <<dvars, fvars, nvars, pT>>

\* the step of the loop over t, and the return
PowAdvance ==
    /\ pPc = "next"
    /\ pT' = pT + 1
    /\ pPc' = IF pT + 1 < Len(pVecs) THEN "begin" ELSE "returned"
    /\ UNCHANGED <<dvars, fvars, nvars, pVecs, pEigs, pIi, pLast, pProd, pRaw>>

(* --------------------------- specifications --------------------------- *)
Init == DavInit /\ FindEigOff /\ NodOff /\ PowOff
Next == Setup \/ Seed \/ Project \/ GSPass \/ Expand \/ Harvest
Spec == Init /\ [][Next]_vars
FairSpec == Spec /\ WF_vars(Next)

FindEigStart == DavOff /\ FindEigInit /\ NodOff /\ PowOff
FindEigSpec == FindEigStart /\ [][FindEigCall]_vars

NodNext == NodResidual \/ NodGrow \/ NodExit
NodStart == DavOff /\ FindEigOff /\ NodInit /\ PowOff
NodSpec == NodStart /\ [][NodNext]_vars

PowNext == PowBegin \/ PowStep \/ PowAdvance
PowStart == DavOff /\ FindEigOff /\ NodOff /\ PowInit
PowerSpec == PowStart /\ [][PowNext]_vars


(* ============================ claims ================================== *)

(* C1: complexDavidson aborts whenever the guess list is empty, or any     *)
(* guess phi[j] has zero norm, or any guess phi[j] has a dimension         *)
(* different from A.size(), for every j and not only for j = 0: a call     *)
(* with such a list never gets past the input checks.                      *)
Claim_C1 == ~inputOK => pc \in {"start", "aborted"}

(* C2: for every well formed input, whatever the residual norms and the    *)
(* Gram-Schmidt outcomes are, complexDavidson reaches its return.          *)
Claim_C2 == inputOK => <>(pc = "returned")

\* the loops of complexDavidson are bounded: at most actual_maxiter + 1 outer
\* iterations and at most 3*Npass + 1 trips through the Gram-Schmidt loop
LoopsBounded ==
    /\ ii <= Min(maxiter_, maxsize - 1) + 1
    /\ (pc \in {"head", "gs"} => ii <= Min(maxiter_, maxsize - 1))
    /\ count <= 3 * Npass + 1

(* C3: the only slots of V and AV ever read or written are                 *)
(* 0..actualMaxIter+1 and the projected matrix never exceeds               *)
(* (actualMaxIter+2) x (actualMaxIter+2), actualMaxIter = min(MaxIter,n-1).*)
Thm_C3 ==
    LET a == Min(maxiter_, maxsize - 1)
    IN  /\ vTop <= a + 1
        /\ avTop <= a + 1
        /\ msize <= a + 2

\* a run that went through every outer iteration of a basis that could grow
Wit_C3 ==
    /\ pc = "returned"
    /\ Min(maxiter_, maxsize - 1) >= 2
    /\ ii = Min(maxiter_, maxsize - 1)
    /\ vTop = ii + 1 /\ avTop = ii /\ msize = ii + 1

(* C4: on every return path every target j <= t has had eigs[j] and phi[j] *)
(* written by a Seed or Project step: eigs[j] is not NaN and phi[j] is not *)
(* the bare normalized initial guess.                                      *)
Claim_C4 ==
    pc = "returned" =>
        \A j \in 0..t : eigs[j].kind \in {"seed", "ritz"} /\ phi[j].kind = "ritz"

(* C5: every harvested j (t < j < nget) that post-processing builds from   *)
(* the last completed projection gets column j of the coefficient matrix   *)
(* and entry j of the spectrum.                                            *)
Claim_C5 ==
    pc = "returned" =>
        \A j \in (t + 1)..(nget - 1) :
            phi[j].kind = "harvest" =>
                /\ phi[j] = Harvested(j, Len(D), maxsize)
                /\ eigs[j] = HarvestedEig(j, ndiag)

(* C6: when actualMaxIter = 0, a call with any well formed guess list      *)
(* runs one outer iteration with one operator product and no dense         *)
(* diagonalization and returns normally with eigs[0] = Re <V[0]|A V[0]>.   *)
Claim_C6 ==
    (inputOK /\ Min(maxiter_, maxsize - 1) = 0 /\ pc \in {"returned", "aborted"}) =>
        /\ pc = "returned"
        /\ ii = 0 /\ iter = 0
        /\ nprod = 1 /\ ndiag = 0
        /\ eigs[0] = SeedEig /\ lambda = <<initEn, 0>>

\* DD[1 + ww] is the tt-th smallest entry (tt = 0: the smallest) of DD
IsTthSmallest(DD, ww, tt) ==
    LET x == DD[1 + ww][1]
    IN  /\ Cardinality({i \in DOMAIN DD : DD[i][1] < x}) <= tt
        /\ Cardinality({i \in DOMAIN DD : DD[i][1] <= x}) >= tt + 1

(* C8: on the non-Hermitian path every Project step selects, for target t, *)
(* the t-th algebraically smallest Ritz value of the projected spectrum.   *)
Claim_C8 ==
    [][(pc = "head" /\ ii > 0 /\ ~hermitian) => IsTthSmallest(D', w', t)]_vars

\* the squared modulus found at position num (zero-based) of the moduli
\* sorted in descending order
ModulusAtPosition(A2, num) ==
    CHOOSE v \in {A2[i] : i \in DOMAIN A2} :
        /\ Cardinality({i \in DOMAIN A2 : A2[i] > v}) <= num
        /\ Cardinality({i \in DOMAIN A2 : A2[i] >= v}) > num

\* r is the earliest index that holds its modulus
EarliestOfItsModulus(A2, r) == \A i \in DOMAIN A2 : A2[i] = A2[r] => r <= i

(* C7 as stated: findEig(num, DR, DI) returns the zero-based index of the  *)
(* eigenvalue at position num of the spectrum sorted by descending         *)
(* modulus, the earliest index among eigenvalues of equal modulus.         *)
Claim_C7 ==
    fePc = "done" =>
        LET A2 == Moduli2(feD)
        IN  /\ feRes + 1 \in DOMAIN feD
            /\ A2[feRes + 1] = ModulusAtPosition(A2, feNum)
            /\ EarliestOfItsModulus(A2, feRes + 1)

(* C7, what the code computes instead: findEig returns the earliest index *)
(* that holds the num-th largest of the DISTINCT modulus values (num = 0:  *)
(* largest), and the smallest modulus when the spectrum has no more than   *)
(* num distinct modulus values.                                            *)
Thm_C7 ==
    fePc = "done" =>
        LET A2 == Moduli2(feD)
            distinct == {A2[i] : i \in DOMAIN A2}
            larger == {v \in distinct : v > A2[feRes + 1]}
        IN  /\ feRes + 1 \in DOMAIN feD
            /\ Cardinality(larger) = Min(feNum, Cardinality(distinct) - 1)
            /\ EarliestOfItsModulus(A2, feRes + 1)

\* a call with num >= 1 on a spectrum with two eigenvalues of equal modulus
\* whose answer is not the one of the sorted list
Wit_C7 ==
    /\ fePc = "done" /\ feNum >= 1
    /\ LET A2 == Moduli2(feD)
       IN  /\ \E i, j \in DOMAIN A2 : i < j /\ A2[i] = A2[j]
           /\ A2[feRes + 1] # ModulusAtPosition(A2, feNum)

(* C9 as stated: at every outer step ii >= 2 of nonOrthDavidson every      *)
(* basis index k = 1..ii contributes its term to the residual q.           *)
Claim_C9 == nIter >= 2 => nQ = 1..nIter

(* C10 as stated: for each target t >= 1 the deflation step of powerMethod *)
(* does not amplify the component of v along a previously returned         *)
(* eigenvector vecs[j], j < t: after the subtraction loop that component   *)
(* is no larger than it was right after A.product, for a v with non-zero  *)
(* components along every eigenvector.                                     *)
Claim_C10 ==
    (pT >= 1 /\ pPc \in {"iter", "next", "cut"} /\ \A i \in 1..3 : pProd[i] # 0) =>
        \A j \in 1..pT :
            Abs(Dot(pVecs[j], pRaw)) <= Abs(Dot(pVecs[j], pProd))

\* what a step of complexDavidson may do to the target index
TargetStep ==
    /\ t' \in {t, t + 1}
    /\ (nget >= 1 => t' <= nget - 1)
    /\ (pc = "head" =>
          /\ ii' = ii
          /\ (ii = Min(maxiter_, maxsize - 1) => broke')
          /\ IF broke'
             THEN IF t < nget - 1 /\ ii < Min(maxiter_, maxsize - 1)
                  THEN t' = t + 1 /\ last_lambda' = <<1000, 0>> /\ pc' = "gs"
                  ELSE t' = t /\ pc' = "post"
             ELSE t' = t /\ pc' = "gs")
    /\ (pc # "head" => t' = t)

(* C11: when the break condition fires at outer iteration ii, t advances   *)
(* by exactly one, last_lambda is reset to (1000,0) and the same outer     *)
(* iteration goes on (ii unchanged) if t < nget-1 and ii < actualMaxIter;  *)
(* otherwise the driver exits to post-processing; the condition always     *)
(* fires at ii = actualMaxIter.  t never decreases, grows by at most one   *)
(* per outer iteration and never exceeds nget-1.                           *)
Thm_C11 == [][TargetStep]_vars

\* the target advanced at an outer iteration past the first one
Wit_C11 ==
    /\ pc = "gs" /\ broke /\ ii >= 1 /\ t >= 1
    /\ last_lambda = <<1000, 0>> /\ ndiag >= 1 /\ eigs[t].kind = "nan"

(* C12: in the Project step the residual is formed with the real part of   *)
(* lambda only when Im lambda is zero (|Im| <= 1e-12), and with the full   *)
(* complex lambda whenever Im lambda is not, whatever its sign.            *)
Claim_C12 ==
    resid \in {"real", "complex"} => (resid = "real" <=> lambda[2] = 0)

(* C13: after every expansion step of nonOrthDavidson, sign flips          *)
(* included, AV[k] = A*V[k] and BV[k] = B*V[k] for every stored k and the  *)
(* active entries of M and N are the overlaps <V[j]|AV[k]>, <V[j]|BV[k]>.  *)
Claim_C13 == nAVok /\ nMok /\ nNok

(* C14: on every exit path of nonOrthDavidson, when phi is synthesized U   *)
(* has been produced by a generalized solve and has exactly iter rows, and *)
(* V[1..iter] have all been assigned.                                      *)
Claim_C14 ==
    nPc \in {"returned", "aborted"} =>
        nU >= 1 /\ nU = nIter /\ nVTop >= nIter

\* a Project step finds t <= ii, diagonalizes an (ii+1) x (ii+1) matrix and,
\* on the Hermitian path, selects the column w = t inside it
ProjectInRange ==
    (pc = "head" /\ ii > 0) =>
        /\ t <= ii
        /\ Len(D') = ii + 1
        /\ (hermitian => w' = t)
        /\ w' >= 0 /\ w' < Len(D')

(* C15: at every Project step (outer iteration ii >= 1) the target index   *)
(* satisfies t <= ii, so on the Hermitian path the selected column w = t   *)
(* is a valid index (w < ii+1) into the spectrum and the coefficient       *)
(* matrices of the (ii+1) x (ii+1) projected matrix.                       *)
Thm_C15 == [][ProjectInRange]_vars

\* a Hermitian Project step whose target is the last column: w = t = ii
Wit_C15 ==
    /\ hermitian /\ pc \in {"gs", "post"} /\ ii >= 1 /\ ndiag >= 1
    /\ w = ii /\ Len(D) = ii + 1 /\ resid = "real"

(* C16: for every well formed input post-processing reads only entries of  *)
(* D, DI, UR, UI that exist: when the harvesting loop over j in (t, nget)  *)
(* runs, a projection has been completed and 1+j <= Len(D) for every j it  *)
(* reads, so the call neither aborts nor returns what it read out of       *)
(* bounds.                                                                 *)
Claim_C16 ==
    inputOK =>
        /\ (pc = "post" /\ t + 1 <= nget - 1 =>
               ndiag >= 1 /\ \A j \in (t + 1)..(nget - 1) : 1 + j <= Len(D))
        /\ pc # "aborted"
        /\ \A j \in 0..(nget - 1) :
               eigs[j].kind # "garbage" /\ phi[j].kind # "garbage"

=============================================================================
